---------------------------- MODULE Spec2Model ----------------------------
(***************************************************************************)
(* Attention layers of deepmatch/layers/interaction.py as state machines.  *)
(*                                                                         *)
(* A layer object is constructed (__init__), built on an input shape      *)
(* (build), called on tensors (call) and asked for its configuration      *)
(* (get_config).  Tensors are sequences indexed from 1: a tensor          *)
(* [B, Tq, Tk] is a sequence of B sequences of Tq sequences of Tk         *)
(* entries, so position p of the source is index p + 1 here.              *)
(*                                                                         *)
(* Numbers.  Scores and values are integers; attention weights and        *)
(* outputs are exact fractions <<n, d>> in lowest terms (float rounding   *)
(* is not modelled).  exp is modelled on a binary grid with the one       *)
(* float property the masking logic relies on: far enough below the row   *)
(* maximum it is exactly zero.                                             *)
(***************************************************************************)
EXTENDS Integers, Sequences, FiniteSets, TLC

VARIABLES layer, calls, err, restored

vars == <<layer, calls, err, restored>>

----------------------------------------------------------------------------
(* Bounds of the model *)

\* longest sequence (T) of a call
MaxLen == 2
\* scores of a call are VeryLow or 0..MaxScore
MaxScore == 1
\* values of a call are 0..MaxValue
MaxValue == 1
\* exp(d) is exactly zero for d < -ExpUnderflow (104 for float32)
ExpUnderflow == 2
\* channel widths and unit counts are 1..MaxWidth
MaxWidth == 2

----------------------------------------------------------------------------
(* Arithmetic *)

Abs(x) == IF x < 0 THEN -x ELSE x

RECURSIVE GCD(_, _)
GCD(a, b) == IF b = 0 THEN a ELSE GCD(b, a % b)

\* the fraction n/d (d # 0) in lowest terms with a positive denominator
Frac(n, d) ==
    LET g == GCD(Abs(n), Abs(d))
        s == IF d < 0 THEN -1 ELSE 1
    IN  <<(s * n) \div g, (s * d) \div g>>

FracAdd(x, y) == Frac(x[1] * y[2] + y[1] * x[2], x[2] * y[2])

FracMul(x, y) == Frac(x[1] * y[1], x[2] * y[2])

FracOfInt(n) == <<n, 1>>

RECURSIVE SumSeq(_)
SumSeq(s) == IF s = <<>> THEN 0 ELSE Head(s) + SumSeq(Tail(s))

RECURSIVE FracSum(_)
FracSum(s) == IF s = <<>> THEN <<0, 1>> ELSE FracAdd(Head(s), FracSum(Tail(s)))

RECURSIVE MaxSeq(_)
MaxSeq(s) ==
    IF Len(s) = 1 THEN s[1]
    ELSE LET m == MaxSeq(Tail(s)) IN IF s[1] > m THEN s[1] ELSE m

\* all sequences of length n over S
SeqsOf(S, n) == [1..n -> S]

\* the tensor x, computed once: comparing a function expression enumerates
\* it, and later applications read the enumerated value
Computed(x) == IF x = x THEN x ELSE x

----------------------------------------------------------------------------
(* SoftmaxWeightedSum *)

\* the sentinel of masked positions.  The source writes -2 ** 32 + 1; the
\* checker's integers are 32 bits wide, so the model holds it four binary
\* orders lower.  What the code uses of it is kept: it lies further below
\* every ordinary score than exp's range, and scores can lie below it.
Paddings == -(2 ^ 28) + 1

\* a raw score further below the sentinel than exp's range
VeryLow == Paddings - ExpUnderflow - 1

Scores == {VeryLow} \cup (0..MaxScore)

Values == 0..MaxValue

\* tf.where on tensors [B, Tq, Tk] of one shape
Where(cond, x, y) ==
    [b \in DOMAIN x |-> [i \in DOMAIN x[b] |-> [j \in DOMAIN x[b][i] |->
        IF cond[b][i][j] THEN x[b][i][j] ELSE y[b][i][j]]]]

\* tf.ones_like(align) * (-2 ** 32 + 1)
PaddingsLike(align) ==
    [b \in DOMAIN align |-> [i \in DOMAIN align[b] |->
        [j \in DOMAIN align[b][i] |-> Paddings]]]

\* a mutant: the diagonal is left out of the triangle
LowerTriMutant(length) ==
    [i \in 1..length |-> [j \in 1..length |-> IF j < i THEN 1 ELSE 0]]

\* the dense lower triangular matrix of ones, [length, length]
LowerTri(length) ==
    [i \in 1..length |-> [j \in 1..length |-> IF j <= i THEN 1 ELSE 0]]

\* exp(d) for d <= 0, on a binary grid scaled by 2^ExpUnderflow
Exp(d) == IF d < -ExpUnderflow THEN 0 ELSE 2 ^ (ExpUnderflow + d)

\* softmax of one row of logits: exp(x - max) / sum
SoftmaxRow(row) ==
    LET m == MaxSeq(row)
        e == [j \in DOMAIN row |-> Exp(row[j] - m)]
        z == SumSeq(e)
    IN  [j \in DOMAIN row |-> Frac(e[j], z)]

\* softmax along the last axis of [B, Tq, Tk]
softmax(align) ==
    [b \in DOMAIN align |-> [i \in DOMAIN align[b] |-> SoftmaxRow(align[b][i])]]

\* Dropout at inference (training unset): the input
dropout(x) == x

\* tf.matmul of weights [B, Tq, Tk] (fractions) and value [B, Tk, D]
MatMul(w, value) ==
    [b \in DOMAIN w |-> [i \in DOMAIN w[b] |-> [c \in DOMAIN value[b][1] |->
        FracSum([j \in DOMAIN w[b][i] |->
                    FracMul(w[b][i][j], FracOfInt(value[b][j][c]))])]]]

\* a mutant: the causal mask keeps the upper triangle
CausalMutant(align, value) ==
    LET length == Len(value[1])
        lower_tri == LowerTri(length)
        masks == [b \in DOMAIN align |-> lower_tri]
    IN  Where([b \in DOMAIN align |-> [i \in 1..length |-> [j \in 1..length |->
                   masks[b][j][i] = 0]]], PaddingsLike(align), align)

\* lines 109-116: positions j > i are replaced by the sentinel
Causal(align, value) ==
    LET length == Len(value[1])
        lower_tri == LowerTri(length)
        masks == [b \in DOMAIN align |-> lower_tri]
    IN  Where([b \in DOMAIN align |-> [i \in 1..length |-> [j \in 1..length |->
                   masks[b][i][j] = 0]]], PaddingsLike(align), align)

\* a mutant: the key mask is not applied
KeyMaskedMutant(align, key_masks) == align

\* lines 106-107: masked keys are replaced by the sentinel
KeyMasked(align, key_masks) == Where(key_masks, align, PaddingsLike(align))

\* align as softmax receives it (lines 105-116): masked keys, and with
\* future_binding the positions after the query, hold the sentinel
SWSLogits(align, value, key_masks, future_binding) ==
    LET a1 == Computed(KeyMasked(align, key_masks))
    IN  Computed(IF future_binding THEN Causal(a1, value) ELSE a1)

\* the attention weights of SoftmaxWeightedSum.call (lines 105-118)
SWSWeights(align, value, key_masks, future_binding) ==
    Computed(dropout(softmax(SWSLogits(align, value, key_masks, future_binding))))

\* SoftmaxWeightedSum.call (inference)
SWSCallFn(align, value, key_masks, future_binding) ==
    MatMul(SWSWeights(align, value, key_masks, future_binding), value)


----------------------------------------------------------------------------
(* Layer objects.  A layer is a record of its class, its constructor       *)
(* options, whether build has run, the weights add_weight created (name    *)
(* to shape) and the attributes build assigned.  Rates are in percent.     *)

NoLayer == [class |-> "none"]

NoError == [type |-> "none"]

\* the Python value None, where an integer option may hold it (no width is
\* negative)
None == -1

\* raise ValueError(text); names is the layer the text names between its
\* backquotes, which the text here leaves out ("" when it names none), and
\* expects the arity it states (0 when it states none)
ValueError(text, names, expects) ==
    [type |-> "ValueError", text |-> text, names |-> names, expects |-> expects]

\* a keyword argument, or the default of the signature
Opt(kw, name, default) == IF name \in DOMAIN kw THEN kw[name] ELSE default

\* Layer.__init__(**kwargs) of Keras: the fields every layer has
BaseLayer(class, kw) ==
    [class |-> class, name |-> Opt(kw, "name", class),
     trainable |-> Opt(kw, "trainable", TRUE), built |-> FALSE,
     weights |-> <<>>, attrs |-> {}]

\* f with the fields of g added (g wins)
Merged(f, g) ==
    [k \in DOMAIN f \cup DOMAIN g |-> IF k \in DOMAIN g THEN g[k] ELSE f[k]]

\* DotAttention.__init__
NewDotAttention(kw) ==
    Merged(BaseLayer("DotAttention", kw), [scale |-> Opt(kw, "scale", TRUE)])

\* ConcatAttention.__init__
NewConcatAttention(kw) ==
    Merged(BaseLayer("ConcatAttention", kw), [scale |-> Opt(kw, "scale", TRUE)])

\* SoftmaxWeightedSum.__init__
NewSoftmaxWeightedSum(kw) ==
    Merged(BaseLayer("SoftmaxWeightedSum", kw),
           [dropout_rate |-> Opt(kw, "dropout_rate", 20),
            future_binding |-> Opt(kw, "future_binding", FALSE),
            seed |-> Opt(kw, "seed", 2020)])

\* AttentionSequencePoolingLayer.__init__
NewAttentionSequencePoolingLayer(kw) ==
    Merged(BaseLayer("AttentionSequencePoolingLayer", kw),
           [dropout_rate |-> Opt(kw, "dropout_rate", 0)])

\* SelfAttention.__init__
NewSelfAttention(kw) ==
    Merged(BaseLayer("SelfAttention", kw),
           [scale |-> Opt(kw, "scale", TRUE),
            dropout_rate |-> Opt(kw, "dropout_rate", 20),
            future_binding |-> Opt(kw, "future_binding", TRUE),
            use_layer_norm |-> Opt(kw, "use_layer_norm", TRUE),
            seed |-> Opt(kw, "seed", 2020)])

\* the fields SelfMultiHeadAttention.__init__ sets (lines 230-238)
MultiHeadFields(kw) ==
    Merged(BaseLayer("SelfMultiHeadAttention", kw),
           [num_units |-> Opt(kw, "num_units", 8),
            head_num |-> Opt(kw, "head_num", 4),
            scale |-> Opt(kw, "scale", TRUE),
            dropout_rate |-> Opt(kw, "dropout_rate", 20),
            future_binding |-> Opt(kw, "future_binding", TRUE),
            use_layer_norm |-> Opt(kw, "use_layer_norm", TRUE),
            use_res |-> Opt(kw, "use_res", TRUE),
            seed |-> Opt(kw, "seed", 2020)])

\* a mutant: the guard lets head_num = 0 through
HeadNumRejectedMutant(head_num) == head_num < 0

\* line 228
HeadNumRejected(head_num) == head_num <= 0

\* SelfMultiHeadAttention.__init__: the object and the error raised
NewSelfMultiHeadAttention(kw) ==
    IF HeadNumRejected(Opt(kw, "head_num", 4))
    THEN [layer |-> NoLayer,
          err |-> ValueError("head_num must be a int > 0", "", 0)]
    ELSE [layer |-> MultiHeadFields(kw), err |-> NoError]

\* UserAttention.__init__
NewUserAttention(kw) ==
    Merged(BaseLayer("UserAttention", kw),
           [scale |-> Opt(kw, "scale", TRUE),
            num_units |-> Opt(kw, "num_units", None),
            activation |-> Opt(kw, "activation", "tanh"),
            dropout_rate |-> Opt(kw, "dropout_rate", 0),
            seed |-> Opt(kw, "seed", 2020),
            use_res |-> Opt(kw, "use_res", TRUE)])

\* AdditiveAttention.__init__
NewAdditiveAttention(kw) ==
    Merged(BaseLayer("AdditiveAttention", kw),
           [hidden_units |-> Opt(kw, "hidden_units", 64),
            use_bias |-> Opt(kw, "use_bias", TRUE),
            activation |-> Opt(kw, "activation", "tanh"),
            dropout_rate |-> Opt(kw, "dropout_rate", 0),
            seed |-> Opt(kw, "seed", 2020)])

\* NARMEncoderLayer.__init__
NewNARMEncoderLayer(kw) ==
    Merged(BaseLayer("NARMEncoderLayer", kw),
           [gru_hidden_units |-> Opt(kw, "gru_hidden_units", <<64>>),
            seed |-> Opt(kw, "seed", 2021)])

----------------------------------------------------------------------------
(* build.  An input_shape is [is_list, shapes]: a list of tensor shapes,   *)
(* or (is_list false) the shape of a single tensor.                        *)

Last(shape) == shape[Len(shape)]

\* isinstance(input_shape, list) and len(input_shape) == n
IsListOf(input_shape, n) == input_shape.is_list /\ Len(input_shape.shapes) = n

\* super().build(input_shape): the layer is marked built
Built(l, attrs) == [l EXCEPT !.built = TRUE, !.attrs = @ \cup attrs]

Raised(l, e) == [layer |-> l, err |-> e]

Returned(l) == [layer |-> l, err |-> NoError]

\* DotAttention.build
BuildDotAttention(l, input_shape) ==
    IF ~IsListOf(input_shape, 2)
    THEN Raised(l, ValueError("A DotAttention layer should be called on a list of 2 tensors",
                              "DotAttention", 2))
    ELSE IF Last(input_shape.shapes[1]) # Last(input_shape.shapes[2])
    THEN Raised(l, ValueError("query_size should keep the same dim with key_size", "", 0))
    ELSE Returned(Built(l, {}))

\* ConcatAttention.build
BuildConcatAttention(l, input_shape) ==
    IF ~IsListOf(input_shape, 2)
    THEN Raised(l, ValueError("A ConcatAttention layer should be called on a list of 2 tensors",
                              "ConcatAttention", 2))
    ELSE Returned(Built(l, {"projection_layer"}))

\* SoftmaxWeightedSum.build
BuildSoftmaxWeightedSum(l, input_shape) ==
    IF ~IsListOf(input_shape, 3)
    THEN Raised(l, ValueError("A SoftmaxWeightedSum layer should be called on a list of 3 tensors",
                              "SoftmaxWeightedSum", 3))
    ELSE IF Last(input_shape.shapes[1]) # Last(input_shape.shapes[3])
    THEN Raised(l, ValueError("query_size should keep the same dim with key_mask_size", "", 0))
    ELSE Returned(Built(l, {"dropout"}))

\* a mutant: the message names the layer that raises it
PoolingArityErrorMutant ==
    ValueError("A AttentionSequencePoolingLayer layer should be called on a list of 3 inputs",
               "AttentionSequencePoolingLayer", 3)

\* lines 148-149
PoolingArityError ==
    ValueError("A SequenceFeatureMask layer should be called on a list of 3 inputs",
               "SequenceFeatureMask", 3)

\* AttentionSequencePoolingLayer.build
BuildAttentionSequencePoolingLayer(l, input_shape) ==
    IF ~IsListOf(input_shape, 3)
    THEN Raised(l, PoolingArityError)
    ELSE Returned(Built(l, {"concat_att", "softmax_weight_sum"}))

\* SelfAttention.build
BuildSelfAttention(l, input_shape) ==
    IF ~IsListOf(input_shape, 2)
    THEN Raised(l, ValueError("A SelfAttention layer should be called on a list of 2 tensors",
                              "SelfAttention", 2))
    ELSE Returned(Built(l, {"layer_norm", "attention", "softmax_weight_sum"}))

\* SelfMultiHeadAttention.build
BuildSelfMultiHeadAttention(l, input_shape) ==
    IF ~IsListOf(input_shape, 2)
    THEN Raised(l, ValueError("A SelfMultiHeadAttention layer should be called on a list of 2 tensors",
                              "SelfMultiHeadAttention", 2))
    ELSE IF Len(input_shape.shapes[1]) # 3 \/ Len(input_shape.shapes[2]) # 2
    THEN Raised(l, ValueError("input: [N, T_k, d_model], key masks: [N, key_seqlen]", "", 0))
    ELSE LET embedding_size == Last(input_shape.shapes[1])
             num_units == IF l.num_units = None THEN embedding_size ELSE l.num_units
             l1 == [l EXCEPT !.num_units = num_units,
                             !.weights = [Q_K_V |-> <<embedding_size, num_units * 3>>,
                                          output_W |-> <<num_units, num_units>>]]
             l2 == Merged(l1, [seq_len_max |-> input_shape.shapes[1][2]])
         IN  Returned(Built(l2, {"layer_norm", "attention", "softmax_weight_sum", "dropout"}))

\* UserAttention.build
BuildUserAttention(l, input_shape) ==
    IF ~IsListOf(input_shape, 3)
    THEN Raised(l, ValueError("A UserAttention layer should be called on a list of 3 tensors",
                              "UserAttention", 3))
    ELSE LET num_units == IF l.num_units = None THEN Last(input_shape.shapes[1])
                          ELSE l.num_units
         IN  Returned(Built([l EXCEPT !.num_units = num_units],
                            {"dense", "attention", "softmax_weight_sum"}))

\* a mutant: W_q is created before the dimensions are checked
HiddenUnitsCheckedMutant(l, input_shape) ==
    LET l1 == [l EXCEPT !.weights = [W_q |-> <<l.hidden_units, l.hidden_units>>]]
    IN  IF l.hidden_units # Last(input_shape.shapes[1])
           \/ l.hidden_units # Last(input_shape.shapes[2])
        THEN Raised(l1, ValueError("The hidden units must be equal to the last dimension of queries and keys!", "", 0))
        ELSE Returned(l1)

\* lines 387-388: the check that opens AdditiveAttention.build
HiddenUnitsChecked(l, input_shape) ==
    IF l.hidden_units # Last(input_shape.shapes[1])
       \/ l.hidden_units # Last(input_shape.shapes[2])
    THEN Raised(l, ValueError("The hidden units must be equal to the last dimension of queries and keys!", "", 0))
    ELSE Returned(l)

\* lines 390-398: the weights AdditiveAttention.build adds
AdditiveWeights(l) ==
    LET h == l.hidden_units
        w == [W_q |-> <<h, h>>, W_k |-> <<h, h>>, v |-> <<h, 1>>]
    IN  IF l.use_bias = TRUE THEN Merged(w, [b |-> <<h>>]) ELSE w

\* AdditiveAttention.build
BuildAdditiveAttention(l, input_shape) ==
    LET r == HiddenUnitsChecked(l, input_shape)
    IN  IF r.err # NoError THEN r
        ELSE Returned(Built([r.layer EXCEPT !.weights = Merged(@, AdditiveWeights(l))],
                            {"activation_layer", "softmax_weighted_sum"}))

\* NARMEncoderLayer.build: one GRU cell per entry of gru_hidden_units, and
\* the local encoder (kept with the layer as the built AdditiveAttention
\* options)
BuildNARMEncoderLayer(l, input_shape) ==
    LET cells == [i \in DOMAIN l.gru_hidden_units |-> [units |-> l.gru_hidden_units[i]]]
        local == NewAdditiveAttention(
                     [hidden_units |-> Last(l.gru_hidden_units), use_bias |-> FALSE,
                      activation |-> "sigmoid", dropout_rate |-> 0, seed |-> l.seed])
        l1 == Merged(l, [gru_cells |-> cells, local_encoder_layer |-> local])
    IN  Returned(Built(l1, {"gru_cells", "gru_cell", "local_encoder_layer"}))

\* build of any layer
Build(l, input_shape) ==
    CASE l.class = "DotAttention" -> BuildDotAttention(l, input_shape)
      [] l.class = "ConcatAttention" -> BuildConcatAttention(l, input_shape)
      [] l.class = "SoftmaxWeightedSum" -> BuildSoftmaxWeightedSum(l, input_shape)
      [] l.class = "AttentionSequencePoolingLayer" ->
            BuildAttentionSequencePoolingLayer(l, input_shape)
      [] l.class = "SelfAttention" -> BuildSelfAttention(l, input_shape)
      [] l.class = "SelfMultiHeadAttention" -> BuildSelfMultiHeadAttention(l, input_shape)
      [] l.class = "UserAttention" -> BuildUserAttention(l, input_shape)
      [] l.class = "AdditiveAttention" -> BuildAdditiveAttention(l, input_shape)
      [] l.class = "NARMEncoderLayer" -> BuildNARMEncoderLayer(l, input_shape)

\* a list of shapes
ListOf(shapes) == [is_list |-> TRUE, shapes |-> shapes]

----------------------------------------------------------------------------
(* get_config and the reconstruction of a layer from it *)

\* __init__ of any class: the object and the error raised
New(class, kw) ==
    CASE class = "DotAttention" -> Returned(NewDotAttention(kw))
      [] class = "ConcatAttention" -> Returned(NewConcatAttention(kw))
      [] class = "SoftmaxWeightedSum" -> Returned(NewSoftmaxWeightedSum(kw))
      [] class = "AttentionSequencePoolingLayer" ->
            Returned(NewAttentionSequencePoolingLayer(kw))
      [] class = "SelfAttention" -> Returned(NewSelfAttention(kw))
      [] class = "SelfMultiHeadAttention" -> NewSelfMultiHeadAttention(kw)
      [] class = "UserAttention" -> Returned(NewUserAttention(kw))
      [] class = "AdditiveAttention" -> Returned(NewAdditiveAttention(kw))
      [] class = "NARMEncoderLayer" -> Returned(NewNARMEncoderLayer(kw))

\* Layer.get_config of Keras
BaseConfig(l) == [name |-> l.name, trainable |-> l.trainable]

\* the object activation_layer(name) returns, as opposed to the name
ActivationLayerOf(name) ==
    CASE name = "tanh" -> "<Activation tanh>"
      [] name = "sigmoid" -> "<Activation sigmoid>"
      [] name = "relu" -> "<Activation relu>"

GotConfig(cfg) == [config |-> cfg, err |-> NoError]

\* get_config of the classes that define it: the mapping and the error raised
GetConfig(l) ==
    CASE l.class = "SoftmaxWeightedSum" ->
            GotConfig(Merged(BaseConfig(l),
                [dropout_rate |-> l.dropout_rate, future_binding |-> l.future_binding]))
      [] l.class = "AttentionSequencePoolingLayer" ->
            GotConfig(Merged(BaseConfig(l), [dropout_rate |-> l.dropout_rate]))
      [] l.class = "SelfMultiHeadAttention" ->
            GotConfig(Merged(BaseConfig(l),
                [num_units |-> l.num_units, head_num |-> l.head_num, scale |-> l.scale,
                 dropout_rate |-> l.dropout_rate, future_binding |-> l.future_binding,
                 use_layer_norm |-> l.use_layer_norm, use_res |-> l.use_res,
                 seed |-> l.seed]))
      [] l.class = "UserAttention" ->
            GotConfig(Merged(BaseConfig(l),
                [num_units |-> l.num_units, activation |-> l.activation,
                 use_res |-> l.use_res, dropout_rate |-> l.dropout_rate,
                 scale |-> l.scale, seed |-> l.seed]))
      [] l.class = "AdditiveAttention" ->
            \* line 436 reads self.activation_layer, which build assigns
            IF "activation_layer" \notin l.attrs
            THEN [config |-> <<>>,
                  err |-> [type |-> "AttributeError", text |-> "activation_layer"]]
            ELSE GotConfig(Merged(BaseConfig(l),
                    [use_bias |-> l.use_bias,
                     activation |-> ActivationLayerOf(l.activation),
                     dropout_rate |-> l.dropout_rate, seed |-> l.seed]))
      [] l.class = "NARMEncoderLayer" ->
            GotConfig(Merged(BaseConfig(l),
                [gru_hidden_units |-> l.gru_hidden_units, seed |-> l.seed]))

HasGetConfig == {"SoftmaxWeightedSum", "AttentionSequencePoolingLayer",
                 "SelfMultiHeadAttention", "UserAttention", "AdditiveAttention",
                 "NARMEncoderLayer"}

----------------------------------------------------------------------------
(* The life of one layer object: __init__, build, get_config followed by   *)
(* the construction of a second layer from the mapping.  calls logs each   *)
(* operation with its arguments and the object it was applied to.          *)

Classes == {"DotAttention", "ConcatAttention", "SoftmaxWeightedSum",
            "AttentionSequencePoolingLayer", "SelfAttention",
            "SelfMultiHeadAttention", "UserAttention", "AdditiveAttention",
            "NARMEncoderLayer"}

Widths == 1..MaxWidth

\* the values the model passes for a constructor option, besides leaving it out
Alternatives(option) ==
    CASE option = "scale" -> {FALSE}
      [] option = "dropout_rate" -> {0, 50}
      [] option = "future_binding" -> BOOLEAN
      [] option = "use_layer_norm" -> {FALSE}
      [] option = "use_res" -> {FALSE}
      [] option = "use_bias" -> {FALSE}
      [] option = "seed" -> {7}
      [] option = "num_units" -> Widths \cup {None}
      [] option = "hidden_units" -> Widths
      [] option = "head_num" -> -1..2
      [] option = "activation" -> {"sigmoid", "relu"}
      [] option = "gru_hidden_units" -> {<<w>> : w \in Widths} \cup {<<1, MaxWidth>>}

\* the options of each __init__ signature
ConstructorOptions(class) ==
    CASE class \in {"DotAttention", "ConcatAttention"} -> {"scale"}
      [] class = "SoftmaxWeightedSum" -> {"dropout_rate", "future_binding", "seed"}
      [] class = "AttentionSequencePoolingLayer" -> {"dropout_rate"}
      [] class = "SelfAttention" ->
            {"scale", "dropout_rate", "future_binding", "use_layer_norm", "seed"}
      [] class = "SelfMultiHeadAttention" ->
            {"num_units", "head_num", "scale", "dropout_rate", "future_binding",
             "use_layer_norm", "use_res", "seed"}
      [] class = "UserAttention" ->
            {"num_units", "activation", "use_res", "dropout_rate", "scale", "seed"}
      [] class = "AdditiveAttention" ->
            {"hidden_units", "use_bias", "activation", "dropout_rate", "seed"}
      [] class = "NARMEncoderLayer" -> {"gru_hidden_units", "seed"}

\* keyword arguments: none, one option, or two
Keywords(class) ==
    LET single == UNION {{o :> v : v \in Alternatives(o)} : o \in ConstructorOptions(class)}
    IN  {<<>>} \cup single \cup {a @@ b : a \in single, b \in single}

\* the input shapes build is given: lists of one to four shapes and a single
\* tensor's shape.  AdditiveAttention unpacks queries and keys from its list,
\* so it is given lists that hold both.
InputShapes(class) ==
    LET T == MaxLen
        seconds == {<<2, T, c>> : c \in Widths} \cup {<<2, 1>>}
        lists == {ListOf(SubSeq(<< <<2, T, c>>, s, <<2, 1>>, <<2, 1>> >>, 1, n)) :
                     c \in Widths, s \in seconds, n \in 1..4}
    IN  IF class = "AdditiveAttention"
        THEN {x \in lists : Len(x.shapes) >= 2}
        ELSE lists \cup {[is_list |-> FALSE, shapes |-> << <<2, T, 1>> >>]}

Init ==
    /\ layer = NoLayer
    /\ calls = <<>>
    /\ err = NoError
    /\ restored = NoLayer

Construct ==
    /\ layer = NoLayer
    /\ err = NoError
    /\ \E class \in Classes : \E kw \in Keywords(class) :
          LET r == New(class, kw)
          IN  /\ layer' = r.layer
              /\ err' = r.err
              /\ calls' = Append(calls, [op |-> "__init__", class |-> class, kw |-> kw])
    /\ UNCHANGED restored

BuildLayer ==
    /\ layer # NoLayer
    /\ layer.built = FALSE
    /\ err = NoError
    /\ restored = NoLayer
    /\ \E input_shape \in InputShapes(layer.class) :
          LET r == Build(layer, input_shape)
          IN  /\ layer' = r.layer
              /\ err' = r.err
              /\ calls' = Append(calls, [op |-> "build", self |-> layer,
                                         input_shape |-> input_shape])
    /\ UNCHANGED restored

\* cls(**layer.get_config())
Reconstruct ==
    /\ layer # NoLayer
    /\ layer.class \in HasGetConfig
    /\ err = NoError
    /\ restored = NoLayer
    /\ LET got == GetConfig(layer)
           r == New(layer.class, got.config)
       IN  /\ restored' = IF got.err = NoError THEN r.layer ELSE NoLayer
           /\ err' = IF got.err = NoError THEN r.err ELSE got.err
           /\ calls' = Append(calls, [op |-> "get_config", self |-> layer,
                                      config |-> got.config])
    /\ UNCHANGED layer

Next == Construct \/ BuildLayer \/ Reconstruct

Spec == Init /\ [][Next]_vars

----------------------------------------------------------------------------
(* Calls of a built SoftmaxWeightedSum: a first call, then a second call   *)
(* whose inputs differ from the first in one score or in the values.       *)

Lens == 1..MaxLen

\* [1, T, T] with every row r
Rows(r) == << [i \in DOMAIN r |-> r] >>

\* value [1, T, 1] of the scalars v
Column(v) == << [j \in DOMAIN v |-> << v[j] >>] >>

SWSRecord(align, value, key_masks) ==
    [align |-> align, value |-> value, key_masks |-> key_masks,
     output |-> SWSCallFn(align, value, key_masks, layer.future_binding)]

InitWeightedSum ==
    /\ layer \in {Build(NewSoftmaxWeightedSum([dropout_rate |-> 0, future_binding |-> fb]),
                          ListOf(<< <<1, MaxLen, MaxLen>>, <<1, MaxLen, 1>>,
                                    <<1, MaxLen, MaxLen>> >>)).layer : fb \in BOOLEAN}
    /\ calls = <<>>
    /\ err = NoError
    /\ restored = NoLayer

SWSCall ==
    /\ calls = <<>>
    /\ \E T \in Lens :
         \E r \in SeqsOf(Scores, T), v \in SeqsOf(Values, T),
            km \in SeqsOf(BOOLEAN, T) :
            calls' = << SWSRecord(Rows(r), Column(v), Rows(km)) >>
    /\ UNCHANGED <<layer, err, restored>>

SWSCallAgainScore ==
    /\ Len(calls) = 1
    /\ LET c == calls[1]
           T == Len(c.value[1])
       IN  \E i \in 1..T, j \in 1..T, s \in Scores :
              /\ s # c.align[1][i][j]
              /\ calls' = Append(calls,
                    SWSRecord([c.align EXCEPT ![1][i][j] = s], c.value, c.key_masks))
    /\ UNCHANGED <<layer, err, restored>>

SWSCallAgainValue ==
    /\ Len(calls) = 1
    /\ LET c == calls[1]
           T == Len(c.value[1])
       IN  \E v \in SeqsOf(Values, T) :
              /\ Column(v) # c.value
              /\ calls' = Append(calls, SWSRecord(c.align, Column(v), c.key_masks))
    /\ UNCHANGED <<layer, err, restored>>

NextWeightedSum == SWSCall \/ SWSCallAgainScore \/ SWSCallAgainValue

SpecWeightedSum == InitWeightedSum /\ [][NextWeightedSum]_vars

----------------------------------------------------------------------------
(* Claims about SoftmaxWeightedSum.call, under SpecWeightedSum *)

\* a mutant: position p is kept when p <= length
SequenceMaskRowMutant(length, T) == [j \in 1..T |-> j <= length + 1]

\* tf.sequence_mask(length, T) as one row: position p (index p + 1) is kept
\* when p < length
SequenceMaskRow(length, T) == [j \in 1..T |-> j <= length]

\* key_masks is the mask of one valid length in Ls, the same for every query row
MaskOfLength(key_masks, Ls) ==
    \E L \in Ls : \A i \in DOMAIN key_masks[1] :
        key_masks[1][i] = SequenceMaskRow(L, Len(key_masks[1][i]))

\* the entries (i, j) where two tensors [1, T, T] differ
DiffAt(x, y) ==
    {p \in (DOMAIN x[1]) \X (DOMAIN x[1][1]) : x[1][p[1]][p[2]] # y[1][p[1]][p[2]]}

\* the key positions where two value tensors [1, T, 1] differ
ValueDiffAt(x, y) == {j \in DOMAIN x[1] : x[1][j] # y[1][j]}

\* C1: the raw score of a masked key position never influences the result:
\* two calls whose align tensors differ only at positions whose key_mask
\* entry is false (same value, same key_masks) return the same output.
C1_MaskedScoreIgnored ==
    \A a \in DOMAIN calls, b \in DOMAIN calls :
        ( /\ calls[a].value = calls[b].value
          /\ calls[a].key_masks = calls[b].key_masks
          /\ \A p \in DiffAt(calls[a].align, calls[b].align) :
                ~calls[a].key_masks[1][p[1]][p[2]] )
        => calls[a].output = calls[b].output

\* C1's case: a second call changed the raw score of a masked key, in a row
\* that also has an unmasked key with an ordinary score
C1_Witness ==
    /\ Len(calls) = 2
    /\ calls[1].value = calls[2].value
    /\ \E p \in DiffAt(calls[1].align, calls[2].align) :
          /\ ~calls[1].key_masks[1][p[1]][p[2]]
          /\ calls[2].align[1][p[1]][p[2]] > calls[1].align[1][p[1]][p[2]]
          /\ calls[1].align[1][p[1]][p[2]] >= 0
          /\ \E j \in DOMAIN calls[1].value[1] :
                /\ calls[1].key_masks[1][p[1]][j]
                /\ calls[1].align[1][p[1]][j] >= 0
                /\ calls[1].value[1][j] # calls[1].value[1][p[2]]

\* row i of two calls is the same
SameRow(a, b, i) == calls[a].output[1][i] = calls[b].output[1][i]

\* two calls of a causal layer on the same align and key_masks whose values
\* differ only at positions after i
DifferAfter(a, b, i) ==
    /\ layer.future_binding
    /\ calls[a].align = calls[b].align
    /\ calls[a].key_masks = calls[b].key_masks
    /\ \A j \in ValueDiffAt(calls[a].value, calls[b].value) : j > i

\* C2 as claimed: with future_binding, for every key mask derived from a valid
\* length in 0..T (0 included) and every align, output row i is the same for
\* two calls whose value tensors differ only at positions j > i.
C2_CausalAnyLength ==
    \A a \in DOMAIN calls, b \in DOMAIN calls :
        \A i \in DOMAIN calls[a].output[1] :
            ( /\ DifferAfter(a, b, i)
              /\ MaskOfLength(calls[a].key_masks, 0..Len(calls[a].value[1])) )
            => SameRow(a, b, i)

\* row i of the call has, at a position it may attend to (j <= i, unmasked),
\* a score that exceeds the sentinel by more than exp's range
HasOrdinaryKey(c, i) ==
    \E j \in 1..i :
        /\ c.key_masks[1][i][j]
        /\ c.align[1][i][j] > Paddings + ExpUnderflow

\* C2 amended: the same, for rows that keep an attendable key with an
\* ordinary score (so for lengths 1..T only).
C2_CausalWithAttendableKey ==
    \A a \in DOMAIN calls, b \in DOMAIN calls :
        \A i \in DOMAIN calls[a].output[1] :
            ( /\ DifferAfter(a, b, i)
              /\ MaskOfLength(calls[a].key_masks, 1..Len(calls[a].value[1]))
              /\ HasOrdinaryKey(calls[a], i) )
            => SameRow(a, b, i)

\* C2's case: a causal layer, a mask of length >= 1, a second call that
\* changed a value after row i, and the whole outputs differ
C2_Witness ==
    /\ Len(calls) = 2
    /\ \E i \in DOMAIN calls[1].output[1] :
          /\ DifferAfter(1, 2, i)
          /\ ValueDiffAt(calls[1].value, calls[2].value) # {}
          /\ MaskOfLength(calls[1].key_masks, 1..Len(calls[1].value[1]))
          /\ HasOrdinaryKey(calls[1], i)
          /\ \E j \in ValueDiffAt(calls[1].value, calls[2].value) :
                calls[1].key_masks[1][i][j]
    /\ calls[1].output # calls[2].output

----------------------------------------------------------------------------
(* ConcatAttention and AttentionSequencePoolingLayer *)

\* tf.sequence_mask(lengths, T) for lengths [B, 1]: [B, 1, T]
SequenceMask(lengths, T) ==
    [b \in DOMAIN lengths |-> [q \in DOMAIN lengths[b] |->
        SequenceMaskRow(lengths[b][q], T)]]

\* tanh on the integer grid: odd, monotone, saturating at -1 and 1
Tanh(x) == IF x > 1 THEN 1 ELSE IF x < -1 THEN -1 ELSE x

RECURSIVE ISqrtFrom(_, _)
ISqrtFrom(n, r) == IF (r + 1) * (r + 1) > n THEN r ELSE ISqrtFrom(n, r + 1)

\* x / (C ** 0.5) on the integer grid: the quotient by the integer square
\* root, rounded towards zero
Scaled(x, C) ==
    LET r == ISqrtFrom(C, 1)
    IN  IF x < 0 THEN -((-x) \div r) ELSE x \div r

\* the dot product of two vectors
Dot(x, y) == SumSeq([c \in DOMAIN x |-> x[c] * y[c]])

\* ConcatAttention.call on query [B, T, Cq] and key [B, T, Ck]; dense is the
\* projection layer's kernel (Cq + Ck entries) and bias
ConcatAttentionCall(l, query, key, dense) ==
    LET q_k == [b \in DOMAIN key |-> [t \in DOMAIN key[b] |-> query[b][t] \o key[b][t]]]
        projected == [b \in DOMAIN key |-> [t \in DOMAIN key[b] |->
                        Tanh(Dot(q_k[b][t], dense.kernel) + dense.bias)]]
        output == IF l.scale = TRUE
                  THEN [b \in DOMAIN key |-> [t \in DOMAIN key[b] |->
                            Scaled(projected[b][t], Len(key[b][t]))]]
                  ELSE projected
    IN  \* tf.transpose(output, [0, 2, 1]): [B, 1, T]
        [b \in DOMAIN key |-> << output[b] >>]

\* AttentionSequencePoolingLayer.call on queries [B, 1, Cq], keys [B, T, Ck],
\* keys_length [B, 1]: the attention weights and the outputs
PoolingCallFn(l, queries, keys, keys_length, dense) ==
    LET hist_len == Len(keys[1])
        key_masks == SequenceMask(keys_length, hist_len)
        tiled == [b \in DOMAIN queries |-> [t \in 1..hist_len |-> queries[b][1]]]
        attention_score == ConcatAttentionCall(NewConcatAttention(<<>>), tiled, keys, dense)
    IN  [weights |-> SWSWeights(attention_score, keys, key_masks, FALSE),
         outputs |-> SWSCallFn(attention_score, keys, key_masks, FALSE)]

\* keys [1, T, 1] of one batch element
KeysOf(T) == {[j \in 1..T |-> << v[j] >>] : v \in SeqsOf(Values, T)}

\* the kernels of the projection layer in the model
Kernels == SeqsOf({-1, 1}, 2)

InitPooling ==
    /\ layer = NewAttentionSequencePoolingLayer(<<>>)
    /\ calls = <<>>
    /\ err = NoError
    /\ restored = NoLayer

PoolingBuild ==
    /\ layer.built = FALSE
    /\ err = NoError
    /\ \E T \in Lens, n \in 2..3 :
          LET shapes == << <<2, 1, 1>>, <<2, T, 1>>, <<2, 1>> >>
              r == Build(layer, ListOf(SubSeq(shapes, 1, n)))
          IN  layer' = r.layer /\ err' = r.err
    /\ UNCHANGED <<calls, restored>>

\* a call on a batch of two (one query vector for both elements)
PoolingCall ==
    /\ layer.built = TRUE
    /\ calls = <<>>
    /\ \E T \in Lens :
         \E k1 \in KeysOf(T), k2 \in KeysOf(T), q \in Values,
            n1 \in 0..T, n2 \in 0..T, kernel \in Kernels :
            LET queries == << << <<q>> >>, << <<q>> >> >>
                keys == <<k1, k2>>
                keys_length == << <<n1>>, <<n2>> >>
                dense == [kernel |-> kernel, bias |-> 0]
                r == PoolingCallFn(layer, queries, keys, keys_length, dense)
            IN  calls' = << [queries |-> queries, keys |-> keys,
                             keys_length |-> keys_length, dense |-> dense,
                             weights |-> r.weights, output |-> r.outputs] >>
    /\ UNCHANGED <<layer, err, restored>>

NextPooling == PoolingBuild \/ PoolingCall

SpecPooling == InitPooling /\ [][NextPooling]_vars

\* the vector x as fractions
FracVector(x) == [c \in DOMAIN x |-> FracOfInt(x[c])]

\* C3: for every batch element whose keys_length is 1 the pooled output is
\* the key vector at position 0, with attention weight 1 there, whatever the
\* query, the projection, the other keys and the other element's length are.
C3_LengthOnePoolsFirstKey ==
    \A n \in DOMAIN calls : \A b \in DOMAIN calls[n].keys :
        calls[n].keys_length[b][1] = 1
        => /\ calls[n].output[b][1] = FracVector(calls[n].keys[b][1])
           /\ calls[n].weights[b][1][1] = <<1, 1>>

\* C3's case: lengths [1, T] with T > 1 on keys that differ from position 0
\* on, where the second element's output is not its first key
C3_Witness ==
    /\ Len(calls) = 1
    /\ Len(calls[1].keys[1]) > 1
    /\ calls[1].keys_length = << <<1>>, <<Len(calls[1].keys[1])>> >>
    /\ calls[1].keys[1][2] # calls[1].keys[1][1]
    /\ calls[1].output[2][1] # FracVector(calls[1].keys[2][1])
    /\ calls[1].output[1][1] = FracVector(calls[1].keys[1][1])

----------------------------------------------------------------------------
(* Claims about construction, build and get_config, under Spec *)

\* C6 as claimed: a layer constructed from the mapping get_config returned
\* has every constructor option equal to the original's.
C6_ConfigRoundTrip ==
    \A n \in DOMAIN calls :
        (calls[n].op = "get_config" /\ restored # NoLayer)
        => \A o \in ConstructorOptions(restored.class) :
              restored[o] = calls[n].self[o]

\* hidden_units differs from the trailing dimension of the queries shape or
\* of the keys shape
HiddenUnitsMismatch(l, input_shape) ==
    \/ l.hidden_units # Last(input_shape.shapes[1])
    \/ l.hidden_units # Last(input_shape.shapes[2])

\* C7: AdditiveAttention.build raises exactly when hidden_units differs from
\* the trailing dimension of the queries or of the keys shape; when it raises
\* the layer is as it was (no weight created, not built); when the dimensions
\* match it succeeds, with W_q, W_k, v (and b with use_bias) created.
C7_BuildChecksHiddenUnits ==
    \A n \in DOMAIN calls :
        (calls[n].op = "build" /\ calls[n].self.class = "AdditiveAttention")
        => LET l0 == calls[n].self
               mismatch == HiddenUnitsMismatch(l0, calls[n].input_shape)
           IN  /\ (err # NoError) <=> mismatch
               /\ mismatch => /\ err.type = "ValueError"
                              /\ layer = l0
                              /\ DOMAIN layer.weights = {}
                              /\ layer.built = FALSE
               /\ ~mismatch => /\ layer.built = TRUE
                               /\ {"W_q", "W_k", "v"} \subseteq DOMAIN layer.weights
                               /\ ("b" \in DOMAIN layer.weights) <=> (l0.use_bias = TRUE)

\* C7's case: build raised on a keys shape whose width is not hidden_units
\* while the queries shape matches
C7_Witness ==
    /\ Len(calls) = 2
    /\ calls[2].op = "build"
    /\ calls[2].self.class = "AdditiveAttention"
    /\ calls[2].self.hidden_units = Last(calls[2].input_shape.shapes[1])
    /\ calls[2].self.hidden_units # Last(calls[2].input_shape.shapes[2])
    /\ err.type = "ValueError"

\* C8: constructing SelfMultiHeadAttention with head_num <= 0 raises, and no
\* object with any field exists; with head_num >= 1 it does not raise.
C8_HeadNumChecked ==
    (Len(calls) = 1 /\ calls[1].op = "__init__"
        /\ calls[1].class = "SelfMultiHeadAttention")
    => LET head_num == Opt(calls[1].kw, "head_num", 4)
       IN  /\ head_num <= 0 => /\ err.type = "ValueError"
                               /\ err.text = "head_num must be a int > 0"
                               /\ layer = NoLayer
           /\ head_num >= 1 => /\ err = NoError
                               /\ layer.head_num = head_num

\* C8's case: head_num = 0 was passed and the constructor raised
C8_Witness ==
    /\ Len(calls) = 1
    /\ calls[1].op = "__init__"
    /\ calls[1].class = "SelfMultiHeadAttention"
    /\ "head_num" \in DOMAIN calls[1].kw
    /\ calls[1].kw["head_num"] = 0
    /\ err.type = "ValueError"

\* the layers whose build validates the arity of its input list
ArityValidated == {"DotAttention", "ConcatAttention", "SoftmaxWeightedSum",
                   "AttentionSequencePoolingLayer", "SelfAttention",
                   "SelfMultiHeadAttention", "UserAttention"}

\* the number of inputs each layer's call unpacks
ExpectedArity(class) ==
    IF class \in {"SoftmaxWeightedSum", "AttentionSequencePoolingLayer", "UserAttention"}
    THEN 3 ELSE 2

\* C9 as claimed: building a layer that validates arity on an input of the
\* wrong arity raises an error whose message names that layer and the
\* expected arity.
C9_ArityErrorNamesLayer ==
    \A n \in DOMAIN calls :
        ( /\ calls[n].op = "build"
          /\ calls[n].self.class \in ArityValidated
          /\ ~IsListOf(calls[n].input_shape, ExpectedArity(calls[n].self.class)) )
        => /\ err.type = "ValueError"
           /\ err.names = calls[n].self.class
           /\ err.expects = ExpectedArity(calls[n].self.class)

----------------------------------------------------------------------------
(* DotAttention and SelfMultiHeadAttention *)

\* DotAttention.call on query [B, Tq, C] and key [B, Tk, C]: [B, Tq, Tk]
DotAttentionCall(l, query, key) ==
    LET output == Computed([b \in DOMAIN query |-> [i \in DOMAIN query[b] |->
                     [j \in DOMAIN key[b] |-> Dot(query[b][i], key[b][j])]]])
    IN  IF l.scale = TRUE
        THEN [b \in DOMAIN query |-> [i \in DOMAIN query[b] |->
                [j \in DOMAIN key[b] |-> Scaled(output[b][i][j], Len(key[b][j]))]]]
        ELSE output

\* TruncatedNormal(seed) for a weight of the given shape: the values depend on
\* the seed and the position alone; the model takes them from {-1, 1}
InitialWeight(seed, shape) ==
    [r \in 1..shape[1] |-> [c \in 1..shape[2] |->
        IF (seed + r * c + c) % 2 = 0 THEN 1 ELSE -1]]

\* tf.tensordot(x, W, axes=(-1, 0)) for x [N, T, C] and W [C, U]
TensorDot(x, W) ==
    [b \in DOMAIN x |-> [t \in DOMAIN x[b] |-> [u \in DOMAIN W[1] |->
        SumSeq([c \in DOMAIN W |-> x[b][t][c] * W[c][u]])]]]

\* the same for x of fractions
FracTensorDot(x, W) ==
    [b \in DOMAIN x |-> [t \in DOMAIN x[b] |-> [u \in DOMAIN W[1] |->
        FracSum([c \in DOMAIN W |-> FracMul(x[b][t][c], FracOfInt(W[c][u]))])]]]

\* tf.split(x, n, axis=2) (or -1) of x [N, T, C]: n tensors [N, T, C / n]
SplitChannels(x, n) ==
    LET d == Len(x[1][1]) \div n
    IN  [k \in 1..n |-> [b \in DOMAIN x |-> [t \in DOMAIN x[b] |->
            SubSeq(x[b][t], (k - 1) * d + 1, k * d)]]]

RECURSIVE Flatten(_)
Flatten(ss) == IF ss = <<>> THEN <<>> ELSE Head(ss) \o Flatten(Tail(ss))

\* tf.concat(xs, axis=0)
ConcatBatch(xs) == Flatten(xs)

\* tf.split(x, n, axis=0) of x [n * N, ...]: n tensors [N, ...]
SplitBatch(x, n) ==
    LET N == Len(x) \div n
    IN  [k \in 1..n |-> SubSeq(x, (k - 1) * N + 1, k * N)]

\* tf.concat(xs, axis=2) of tensors [N, T, d]
ConcatChannels(xs) ==
    [b \in DOMAIN xs[1] |-> [t \in DOMAIN xs[1][b] |->
        Flatten([k \in DOMAIN xs |-> xs[k][b][t]])]]

\* a mutant: the heads are stacked element by element (row b * h + k)
SplitHeadsMutant(x, head_num) ==
    LET parts == SplitChannels(x, head_num)
    IN  Flatten([b \in DOMAIN x |-> [k \in 1..head_num |-> parts[k][b]]])

\* lines 276-278: (N, T, C) to (h * N, T, C / h)
SplitHeads(x, head_num) == ConcatBatch(SplitChannels(x, head_num))

\* line 287: (h * N, T, C / h) to (N, T, C)
MergeHeads(x, head_num) == ConcatChannels(SplitBatch(x, head_num))

\* a mutant: each mask row is repeated h times in place (np.repeat)
TiledMasksMutant(key_masks, head_num, Tq) ==
    [r \in 1..(head_num * Len(key_masks)) |->
        [i \in 1..Tq |-> key_masks[((r - 1) \div head_num) + 1]]]

\* lines 283-284: key_masks [N, T_k] tiled to (h * N, T_q, T_k)
TiledMasks(key_masks, head_num, Tq) ==
    LET tiled == ConcatBatch([k \in 1..head_num |-> key_masks])
    IN  [r \in DOMAIN tiled |-> [i \in 1..Tq |-> tiled[r]]]

\* x + y on tensors [N, T, Cx] (fractions) and [N, T, Cy] (integers) by the
\* broadcasting rule of elementwise addition: equal widths, or one of them 1
BroadcastAdd(x, y) ==
    LET Cx == Len(x[1][1])
        Cy == Len(y[1][1])
        C == IF Cx >= Cy THEN Cx ELSE Cy
    IN  IF Cx # Cy /\ Cx # 1 /\ Cy # 1
        THEN [ok |-> FALSE, value |-> <<>>]
        ELSE [ok |-> TRUE,
              value |-> [b \in DOMAIN x |-> [t \in DOMAIN x[b] |-> [c \in 1..C |->
                  FracAdd(x[b][t][IF Cx = 1 THEN 1 ELSE c],
                          FracOfInt(y[b][t][IF Cy = 1 THEN 1 ELSE c]))]]]]

\* LayerNormalization(x): held as a term (its values are not computed); its
\* shape is the shape of x
LayerNorm(x) == [b \in DOMAIN x |-> [t \in DOMAIN x[b] |->
                    [c \in DOMAIN x[b][t] |-> <<"layer_norm", x[b][t], c>>]]]

\* SelfMultiHeadAttention.call (inference) on input_info [N, T, C] and
\* keys_length [N, 1]: the intermediate tensors and the result
MultiHeadCallFn(l, input_info, keys_length) ==
    LET hist_len == Len(input_info[1])
        masks3 == SequenceMask(keys_length, hist_len)
        key_masks == [b \in DOMAIN masks3 |-> masks3[b][1]]
        W == Computed(InitialWeight(l.seed, l.weights.Q_K_V))
        W_output == Computed(InitialWeight(l.seed, l.weights.output_W))
        Q_K_V == Computed(TensorDot(input_info, W))
        qkv == Computed(SplitChannels(Q_K_V, 3))
        querys == Computed(SplitHeads(qkv[1], l.head_num))
        keys == Computed(SplitHeads(qkv[2], l.head_num))
        values == Computed(SplitHeads(qkv[3], l.head_num))
        align == Computed(DotAttentionCall(NewDotAttention([scale |-> l.scale]),
                                           querys, keys))
        tiled == Computed(TiledMasks(key_masks, l.head_num, hist_len))
        heads == Computed(SWSCallFn(align, values, tiled, l.future_binding))
        merged == Computed(MergeHeads(heads, l.head_num))
        projected == Computed(dropout(FracTensorDot(merged, W_output)))
        added == IF l.use_res = TRUE THEN BroadcastAdd(projected, input_info)
                 ELSE [ok |-> TRUE, value |-> projected]
    IN  [ok |-> added.ok,
         qkv |-> qkv, key_masks |-> key_masks, tiled |-> tiled, merged |-> merged,
         outputs |-> IF ~added.ok THEN <<>>
                     ELSE IF l.use_layer_norm = TRUE THEN LayerNorm(added.value)
                     ELSE added.value]

----------------------------------------------------------------------------
(* Calls of a built SelfMultiHeadAttention on a batch of two *)

\* the keyword arguments of the layers in the model: num_units (or None),
\* a head_num that divides the resolved num_units, and at most one more option
MultiHeadKeywords(C) ==
    LET more == {<<>>, "scale" :> FALSE, "future_binding" :> FALSE,
                 "use_layer_norm" :> FALSE, "use_res" :> FALSE, "seed" :> 7}
    IN  {("num_units" :> nu) @@ ("head_num" :> h) @@ m :
            nu \in Widths \cup {None}, h \in Widths, m \in more}

Divides(h, nu, C) == (IF nu = None THEN C ELSE nu) % h = 0

\* one batch element [T, C] whose entries vary along both axes
Block(p, T, C) == [t \in 1..T |-> [c \in 1..C |-> (p + t + c) % (MaxValue + 1)]]

InitMultiHead ==
    /\ \E C \in Widths : \E kw \in MultiHeadKeywords(C) :
          /\ Divides(kw["head_num"], kw["num_units"], C)
          /\ layer = Build(New("SelfMultiHeadAttention", kw).layer,
                           ListOf(<< <<2, MaxLen, C>>, <<2, 1>> >>)).layer
    /\ calls = <<>>
    /\ err = NoError
    /\ restored = NoLayer

MultiHeadCall ==
    /\ layer.built = TRUE
    /\ calls = <<>>
    /\ LET T == layer.seq_len_max
           C == layer.weights.Q_K_V[1]
       IN  \E p \in Values, n1 \in 0..T, n2 \in 0..T :
              LET input_info == << Block(0, T, C), Block(p, T, C) >>
                  keys_length == << <<n1>>, <<n2>> >>
                  r == MultiHeadCallFn(layer, input_info, keys_length)
              IN  /\ calls' = << [op |-> "call", input_info |-> input_info,
                                  keys_length |-> keys_length, ok |-> r.ok,
                                  qkv |-> r.qkv, key_masks |-> r.key_masks,
                                  tiled |-> r.tiled, merged |-> r.merged,
                                  output |-> r.outputs] >>
                  /\ err' = IF r.ok THEN NoError
                            ELSE [type |-> "InvalidArgumentError",
                                  text |-> "Incompatible shapes"]
    /\ UNCHANGED <<layer, restored>>

NextMultiHead == MultiHeadCall

SpecMultiHead == InitMultiHead /\ [][NextMultiHead]_vars

\* C4 as claimed: whenever the forward call succeeds the output channel width
\* is num_units, and whenever use_res is true and num_units differs from the
\* input width C the residual addition fails.
C4_OutputWidthIsNumUnits ==
    \A n \in DOMAIN calls :
        LET C == Len(calls[n].input_info[1][1])
        IN  /\ calls[n].ok => Len(calls[n].output[1][1]) = layer.num_units
            /\ (layer.use_res = TRUE /\ layer.num_units # C)
               => (~calls[n].ok /\ err # NoError)

\* attention for batch element b and head k alone: channel slice k of
\* element b's queries, keys and values, under element b's own key mask
HeadAlone(c, b, k) ==
    LET d == Len(c.qkv[1][1][1]) \div layer.head_num
        T == Len(c.input_info[b])
        slice(x) ==
            Computed(<< [t \in 1..T |-> SubSeq(x[b][t], (k - 1) * d + 1, k * d)] >>)
        mask == << [i \in 1..T |-> SequenceMaskRow(c.keys_length[b][1], T)] >>
        align == Computed(DotAttentionCall(NewDotAttention([scale |-> layer.scale]),
                                           slice(c.qkv[1]), slice(c.qkv[2])))
    IN  Computed(SWSCallFn(align, slice(c.qkv[3]), mask, layer.future_binding)[1])

\* C10: the head-batched computation equals attention computed separately
\* for every (batch element b, head k), placed in channel slice k of output
\* element b; row k*N+b of the tiled mask is element b's mask; merging the
\* heads undoes splitting them.
C10_HeadBatching ==
    \A n \in DOMAIN calls :
        LET c == calls[n]
            N == Len(c.input_info)
            T == Len(c.input_info[1])
            h == layer.head_num
        IN  /\ \A b \in 1..N :
                  LET alone == Computed([k \in 1..h |-> HeadAlone(c, b, k)])
                  IN  \A t \in 1..T :
                         c.merged[b][t] = Flatten([k \in 1..h |-> alone[k][t]])
            /\ \A b \in 1..N, k \in 1..h, i \in 1..T :
                  c.tiled[(k - 1) * N + b][i] = SequenceMaskRow(c.keys_length[b][1], T)
            /\ \A x \in {c.qkv[1], c.qkv[2], c.qkv[3]} :
                  MergeHeads(SplitHeads(x, h), h) = x

\* C10's case: two heads on a batch of two whose lengths differ, and the
\* two heads of an element give different results
C10_Witness ==
    /\ Len(calls) = 1
    /\ layer.head_num = 2
    /\ calls[1].keys_length[1] # calls[1].keys_length[2]
    /\ calls[1].keys_length[1][1] > 0
    /\ calls[1].keys_length[2][1] > 0
    /\ calls[1].input_info[1] # calls[1].input_info[2]
    /\ \E t \in DOMAIN calls[1].merged[1] :
          /\ calls[1].merged[1][t][1] # calls[1].merged[1][t][2]
          /\ calls[1].merged[1][t] # calls[1].merged[2][t]

----------------------------------------------------------------------------
(* AdditiveAttention.call and NARMEncoderLayer.call *)

\* sigmoid on the integer grid, in halves: 0 below zero, 1 at zero, 2 above
Sigmoid(x) == IF x < 0 THEN 0 ELSE IF x = 0 THEN 1 ELSE 2

\* activation_layer(name), applied to x
Activation(name, x) == IF name = "sigmoid" THEN Sigmoid(x) ELSE Tanh(x)

\* the shape of a tensor [B, T, C]
Shape3(x) == <<Len(x), Len(x[1]), Len(x[1][1])>>

\* AdditiveAttention.call on inputs = [queries, keys, sequence_length], in
\* the order the call unpacks them: queries [B, Tq, H], keys [B, Tk, H],
\* sequence_length [B, 1]
AdditiveAttentionCall(l, inputs) ==
    LET queries == inputs[1]
        keys == inputs[2]
        sequence_length == inputs[3]
        values == keys
        queries_len == Len(queries[1])
        keys_len == Len(keys[1])
        hidden_units == Len(keys[1][1])
        mask == Computed(SequenceMask(sequence_length, keys_len))
        seq_mask == Computed([b \in DOMAIN mask |-> [i \in 1..queries_len |-> mask[b][1]]])
        W_k == Computed(InitialWeight(l.seed, l.weights.W_k))
        W_q == Computed(InitialWeight(l.seed, l.weights.W_q))
        v == Computed(InitialWeight(l.seed, l.weights.v))
        bias == IF l.use_bias = TRUE
                THEN InitialWeight(l.seed, <<1, hidden_units>>)[1]
                ELSE [u \in 1..hidden_units |-> 0]
        keys_reshaped == Computed(TensorDot(keys, W_k))
        queries_reshaped == Computed(TensorDot(queries, W_q))
        scores == Computed([b \in DOMAIN queries |-> [i \in 1..queries_len |->
                     [j \in 1..keys_len |->
                        SumSeq([u \in 1..hidden_units |->
                           Activation(l.activation,
                                      keys_reshaped[b][j][u] + queries_reshaped[b][i][u]
                                      + bias[u]) * v[u][1]])]]])
    IN  [queries |-> queries, keys |-> keys, values |-> values,
         queries_len |-> queries_len, keys_len |-> keys_len,
         seq_mask |-> seq_mask, scores |-> scores,
         weights |-> SWSWeights(scores, values, seq_mask, FALSE),
         outputs |-> SWSCallFn(scores, values, seq_mask, FALSE)]

\* one step of a GRU cell of the given units: the new state from the input
\* x and the state h.  The cell's arithmetic belongs to the library; on the
\* integer grid the state moves by the kernel's sign times the input's sum
\* (alternating over the units) and saturates as tanh does.
GRUCellStep(cell, x, h) ==
    [u \in 1..cell.units |->
        Tanh(h[u] + cell.kernel * (IF u % 2 = 1 THEN 1 ELSE -1) * SumSeq(x))]

\* the state of the cell after the first t steps of one sequence x [T, C]
\* of valid length n: steps beyond n leave the state alone
RECURSIVE StateAfter(_, _, _, _)
StateAfter(cell, x, n, t) ==
    IF t = 0 THEN [u \in 1..cell.units |-> 0]
    ELSE IF t > n THEN StateAfter(cell, x, n, t - 1)
    ELSE GRUCellStep(cell, x[t], StateAfter(cell, x, n, t - 1))

\* tf.nn.dynamic_rnn(cell, inputs, sequence_length): the per-step outputs
\* [B, T, units], zero past each sequence's length, and the final state
\* [B, units]
DynamicRNN(cell, inputs, sequence_length) ==
    LET T == Len(inputs[1])
    IN  [rnn_output |-> [b \in DOMAIN inputs |-> [t \in 1..T |->
                            IF t <= sequence_length[b]
                            THEN StateAfter(cell, inputs[b], sequence_length[b], t)
                            ELSE [u \in 1..cell.units |-> 0]]],
         hidden_state |-> [b \in DOMAIN inputs |->
                            StateAfter(cell, inputs[b], sequence_length[b], T)]]

\* tf.squeeze of sequence_length [B, 1] for B > 1
Squeeze(sequence_length) == [b \in DOMAIN sequence_length |-> sequence_length[b][1]]

\* tf.expand_dims(x, axis=1) of x [B, H]
ExpandDims(x) == [b \in DOMAIN x |-> << x[b] >>]

\* reduce_sum(x, axis=1) of x [B, T, H] of fractions
ReduceSum(x) ==
    [b \in DOMAIN x |-> [u \in DOMAIN x[b][1] |->
        FracSum([t \in DOMAIN x[b] |-> x[b][t][u]])]]

\* NARMEncoderLayer.call on rnn_input [B, T, C] and sequence_length [B, 1];
\* kernels gives each cell's kernel sign.  Every pass of the loop runs its
\* cell over rnn_input; the names rnn_output and hidden_state keep the last
\* pass's results.  The local encoder is built when it is first called.
NARMCallFn(l, rnn_input, sequence_length, kernels) ==
    LET runs == Computed([i \in DOMAIN l.gru_hidden_units |->
                    LET r == DynamicRNN([units |-> l.gru_cells[i].units,
                                         kernel |-> kernels[i]],
                                        rnn_input, Squeeze(sequence_length))
                    IN  [inputs |-> rnn_input, rnn_output |-> r.rnn_output,
                         hidden_state |-> r.hidden_state]])
        rnn_output == runs[Len(l.gru_hidden_units)].rnn_output
        user_global_output == runs[Len(l.gru_hidden_units)].hidden_state
        hidden_state == ExpandDims(user_global_output)
        local == Build(l.local_encoder_layer,
                       ListOf(<<Shape3(rnn_output), Shape3(hidden_state),
                                <<Len(sequence_length), 1>> >>)).layer
        attention == AdditiveAttentionCall(local,
                         <<rnn_output, hidden_state, sequence_length>>)
        user_local_output == Computed(ReduceSum(attention.outputs))
    IN  [runs |-> runs, rnn_output |-> rnn_output,
         user_global_output |-> user_global_output,
         attention |-> attention, user_local_output |-> user_local_output,
         user_output |-> [b \in DOMAIN rnn_input |->
                            FracVector(user_global_output[b]) \o user_local_output[b]]]

----------------------------------------------------------------------------
(* Calls of a NARMEncoderLayer on a batch of two *)

\* gru_hidden_units of one or two cells
HiddenUnitTuples == SeqsOf(Widths, 1) \cup SeqsOf(Widths, 2)

InitEncoder ==
    /\ \E g \in HiddenUnitTuples : \E kw \in {<<>>, "seed" :> 7} :
          layer = New("NARMEncoderLayer", ("gru_hidden_units" :> g) @@ kw).layer
    /\ calls = <<>>
    /\ err = NoError
    /\ restored = NoLayer

EncoderBuild ==
    /\ layer.built = FALSE
    /\ LET r == Build(layer, ListOf(<< <<2, MaxLen, 1>>, <<2, 1>> >>))
       IN  layer' = r.layer /\ err' = r.err
    /\ calls' = Append(calls, [op |-> "build"])
    /\ UNCHANGED restored

\* a call on a batch of two sequences (the second is the first reversed)
EncoderCall ==
    /\ layer.built = TRUE
    /\ Len(calls) = 1
    /\ \E T \in Lens :
         \E x \in SeqsOf(Values, T), n1 \in 0..T, n2 \in 0..T,
            kernels \in [DOMAIN layer.gru_hidden_units -> {-1, 1}] :
            LET rnn_input == << [t \in 1..T |-> << x[t] >>],
                                [t \in 1..T |-> << x[T + 1 - t] >>] >>
                sequence_length == << <<n1>>, <<n2>> >>
                r == NARMCallFn(layer, rnn_input, sequence_length, kernels)
            IN  calls' = Append(calls,
                    [op |-> "call", rnn_input |-> rnn_input,
                     sequence_length |-> sequence_length, kernels |-> kernels,
                     runs |-> r.runs, rnn_output |-> r.rnn_output,
                     user_global_output |-> r.user_global_output,
                     attention |-> r.attention,
                     user_local_output |-> r.user_local_output,
                     output |-> r.user_output])
    /\ UNCHANGED <<layer, err, restored>>

NextEncoder == EncoderBuild \/ EncoderCall

SpecEncoder == InitEncoder /\ [][NextEncoder]_vars

\* C5 as claimed: the local encoder gets the final hidden state, with a
\* time axis of one, as queries and the per-step outputs as keys and values,
\* the key mask is the sequence mask over the T steps, the attention output
\* has a time axis of one, and the local representation is the sum of the
\* per-step outputs under weights that (for a sequence that is not empty)
\* vanish from sequence_length on.
C5_HiddenStateQueriesOutputs ==
    \A n \in DOMAIN calls :
        calls[n].op = "call" =>
            LET c == calls[n]
                a == c.attention
                T == Len(c.rnn_input[1])
            IN  \A b \in DOMAIN c.rnn_input :
                   /\ a.queries_len = 1
                   /\ a.keys_len = T
                   /\ a.queries[b] = << c.user_global_output[b] >>
                   /\ a.keys[b] = c.rnn_output[b]
                   /\ a.seq_mask[b] = << SequenceMaskRow(c.sequence_length[b][1], T) >>
                   /\ Len(a.outputs[b]) = 1
                   /\ \A j \in 1..T :
                         (c.sequence_length[b][1] > 0 /\ j > c.sequence_length[b][1])
                         => a.weights[b][1][j] = <<0, 1>>
                   /\ c.user_local_output[b] = MatMul(a.weights, c.rnn_output)[b][1]

\* C11 as claimed: with two or more cells, cell 0 consumes the input sequence
\* and every later cell consumes the per-step outputs of the cell before it;
\* the per-step outputs and the final hidden state the representations are
\* made of are those of the last cell of that chain.
C11_CellsFormStack ==
    \A n \in DOMAIN calls :
        (calls[n].op = "call" /\ Len(layer.gru_hidden_units) >= 2) =>
            LET c == calls[n]
                k == Len(layer.gru_hidden_units)
            IN  /\ c.runs[1].inputs = c.rnn_input
                /\ \A i \in 2..k : c.runs[i].inputs = c.runs[i - 1].rnn_output
                /\ c.rnn_output = c.runs[k].rnn_output
                /\ c.user_global_output = c.runs[k].hidden_state

----------------------------------------------------------------------------
(* Combined masking in SoftmaxWeightedSum.call, under SpecMaskedSum *)

\* one call whose key mask is tf.sequence_mask of a length L, 0 <= L <= T,
\* the same for every query row
SWSCallWithLength ==
    /\ calls = <<>>
    /\ \E T \in Lens :
         \E r \in SeqsOf(Scores, T), v \in SeqsOf(Values, T), L \in 0..T :
            calls' = << SWSRecord(Rows(r), Column(v), Rows(SequenceMaskRow(L, T))) >>
    /\ UNCHANGED <<layer, err, restored>>

NextMaskedSum == SWSCallWithLength

SpecMaskedSum == InitWeightedSum /\ [][NextMaskedSum]_vars

\* the key positions query row i may attend to: unmasked and not after i
Unmasked(c, i) == {j \in DOMAIN c.key_masks[1][i] : j <= i /\ c.key_masks[1][i][j]}

\* the logits and the attention weights of row i of a recorded call
LogitsRow(c, i) == SWSLogits(c.align, c.value, c.key_masks, layer.future_binding)[1][i]

WeightsRow(c, i) == SWSWeights(c.align, c.value, c.key_masks, layer.future_binding)[1][i]

\* the positions that carry attention weight
Support(w) == {j \in DOMAIN w : w[j][1] # 0}

\* a causal layer called with the key mask of a length L, 1 <= L <= T
CausalWithLength(c) ==
    /\ layer.future_binding
    /\ MaskOfLength(c.key_masks, 1..Len(c.value[1]))

\* in row i the sentinel stands exactly at the positions outside Unmasked
SentinelOutside(c, i) ==
    \A j \in DOMAIN c.align[1][i] :
        LogitsRow(c, i)[j] = IF j \in Unmasked(c, i) THEN c.align[1][i][j] ELSE Paddings

\* C12 as claimed: with future_binding and the mask of a length L, 1 <= L <= T,
\* every query row keeps the first key unmasked, is not wholly replaced by
\* the sentinel, and has its attention weights supported exactly on the
\* positions j <= i below L.
C12_SupportIsUnmasked ==
    \A n \in DOMAIN calls :
        CausalWithLength(calls[n]) =>
            \A i \in DOMAIN calls[n].align[1] :
                /\ 1 \in Unmasked(calls[n], i)
                /\ SentinelOutside(calls[n], i)
                /\ Support(WeightsRow(calls[n], i)) = Unmasked(calls[n], i)

\* the unmasked positions of row i whose score lies within exp's nonzero
\* range of the largest unmasked score
NearMax(c, i) ==
    {j \in Unmasked(c, i) :
        \A k \in Unmasked(c, i) : c.align[1][i][j] >= c.align[1][i][k] - ExpUnderflow}

\* C12 amended: every row keeps the first key and holds the sentinel exactly
\* outside the unmasked positions; when an unmasked score exceeds the
\* sentinel by more than exp's range, the weights are supported on the
\* unmasked positions whose score is within that range of the largest one.
C12_SupportWithinUnmasked ==
    \A n \in DOMAIN calls :
        CausalWithLength(calls[n]) =>
            \A i \in DOMAIN calls[n].align[1] :
                /\ 1 \in Unmasked(calls[n], i)
                /\ SentinelOutside(calls[n], i)
                /\ HasOrdinaryKey(calls[n], i) =>
                      /\ Support(WeightsRow(calls[n], i)) = NearMax(calls[n], i)
                      /\ Support(WeightsRow(calls[n], i)) \subseteq Unmasked(calls[n], i)

\* C12's case: a causal call with the mask of a length; one row holds the
\* sentinel at a position and gives it no weight, and one row after the
\* first has an unmasked position whose weight has vanished
C12_Witness ==
    /\ Len(calls) = 1
    /\ CausalWithLength(calls[1])
    /\ \E i \in DOMAIN calls[1].align[1] :
          /\ HasOrdinaryKey(calls[1], i)
          /\ Unmasked(calls[1], i) # DOMAIN calls[1].align[1][i]
          /\ Support(WeightsRow(calls[1], i)) = Unmasked(calls[1], i)
    /\ \E i \in DOMAIN calls[1].align[1] :
          /\ i > 1
          /\ HasOrdinaryKey(calls[1], i)
          /\ Support(WeightsRow(calls[1], i)) # Unmasked(calls[1], i)
          /\ Support(WeightsRow(calls[1], i)) # {}

=============================================================================
